---------------------------- MODULE Spec2Model ----------------------------
(* A model of smem: the per-process scan of src/src/main.rs (get_statistics),  *)
(* the gather / sort / print pipeline of main, and the library types of        *)
(* src/src/stats.rs and src/src/filter.rs (Size, ProcessSizes, cmp_by,         *)
(* Filters).                                                                   *)
(*                                                                             *)
(* Text is modelled as a sequence of one-character strings, so that slicing,   *)
(* prefix tests, rfind and decimal parsing are computed as the code computes   *)
(* them.  All text in the model is ASCII: byte and character offsets agree.    *)
EXTENDS Integers, Sequences, FiniteSets, TLC

VARIABLES
    entries,         \* main: the directory entries read from options.source
    process_filter,  \* main: the compiled process pattern, or None
    user_filter,     \* main: the compiled user pattern, or None
    reverse,         \* options.reverse
    sort_field,      \* options.sort_field
    numeric,         \* options.numeric
    pc,              \* per entry: the position of its get_statistics call
    opened,          \* per entry: the files of the process directory opened so far
    uid,             \* per entry: get_statistics' local uid
    username,        \* per entry: get_statistics' local username
    command,         \* per entry: get_statistics' local command
    cmdline,         \* per entry: get_statistics' local cmdline
    result,          \* per entry: what get_statistics returned (or that it panicked)
    phase,           \* main: scan, collected, sorted, printed, aborted
    processes,       \* main: the gathered Vec<ProcessStatistics>
    printed,         \* main: the pids of the rows written so far
    size_in,         \* the line handed to the size parsers
    size_out,        \* what Size::from_smap_entry and parse_size returned for it
    totals_in,       \* the ProcessSizes values to accumulate
    totals_n,        \* how many of them have been accumulated
    totals           \* the running ProcessSizes total

vars == << entries, process_filter, user_filter, reverse, sort_field, numeric, pc, opened,
           uid, username, command, cmdline, result, phase, processes, printed,
           size_in, size_out, totals_in, totals_n, totals >>

scanVars == << entries, process_filter, user_filter, reverse, sort_field, numeric, pc,
               opened,
               uid, username, command, cmdline, result, phase, processes, printed >>

sizeVars == << size_in, size_out >>

totalsVars == << totals_in, totals_n, totals >>

-----------------------------------------------------------------------------
(* Bounds of the model.                                                        *)

\* the number of directory entries of one run
MaxEntries == 2

\* the widest run of padding spaces between a label and its value
MaxPad == 2

\* the largest kilobyte number written on a generated size line
MaxKb == 11

\* the longest sequence of ProcessSizes accumulated into the totals
MaxRecords == 3

\* the longest gathered vector handed to the sort step
MaxRows == 3

-----------------------------------------------------------------------------
(* Text.                                                                       *)

None == [some |-> FALSE]

Some(x) == [some |-> TRUE, val |-> x]

Digit == {"0", "1", "2", "3", "4", "5", "6", "7", "8", "9"}

DigitVal(c) ==
    CASE c = "0" -> 0 [] c = "1" -> 1 [] c = "2" -> 2 [] c = "3" -> 3
      [] c = "4" -> 4 [] c = "5" -> 5 [] c = "6" -> 6 [] c = "7" -> 7
      [] c = "8" -> 8 [] c = "9" -> 9

DigitChar(d) ==
    CASE d = 0 -> "0" [] d = 1 -> "1" [] d = 2 -> "2" [] d = 3 -> "3"
      [] d = 4 -> "4" [] d = 5 -> "5" [] d = 6 -> "6" [] d = 7 -> "7"
      [] d = 8 -> "8" [] d = 9 -> "9"

\* the decimal text of a natural number, as the kernel writes it
RECURSIVE Decimal(_)
Decimal(n) == IF n < 10 THEN << DigitChar(n) >>
              ELSE Append(Decimal(n \div 10), DigitChar(n % 10))

\* the byte value of a character (only the characters the model uses)
Ord(c) ==
    CASE c = "\n" -> 10 [] c = " " -> 32 [] c = "+" -> 43 [] c = "-" -> 45
      [] c \in Digit -> 48 + DigitVal(c)
      [] c = ":" -> 58 [] c = "B" -> 66 [] c = "C" -> 67 [] c = "D" -> 68
      [] c = "N" -> 78 [] c = "P" -> 80 [] c = "R" -> 82 [] c = "S" -> 83
      [] c = "U" -> 85 [] c = "_" -> 95
      [] c = "a" -> 97 [] c = "b" -> 98 [] c = "c" -> 99 [] c = "d" -> 100
      [] c = "e" -> 101 [] c = "h" -> 104 [] c = "i" -> 105 [] c = "k" -> 107
      [] c = "l" -> 108 [] c = "m" -> 109 [] c = "n" -> 110 [] c = "o" -> 111
      [] c = "p" -> 112 [] c = "r" -> 114 [] c = "s" -> 115 [] c = "t" -> 116
      [] c = "v" -> 118 [] c = "w" -> 119 [] c = "x" -> 120 [] c = "y" -> 121
      [] OTHER -> 0

\* str::starts_with
starts_with(s, p) == Len(s) >= Len(p) /\ SubSeq(s, 1, Len(p)) = p

\* str::ends_with
ends_with(s, p) == Len(s) >= Len(p) /\ SubSeq(s, Len(s) - Len(p) + 1, Len(s)) = p

\* str::rfind(' '): the 1-based place of the last c in s, 0 when there is none
rfind(s, c) ==
    LET at == {i \in 1..Len(s) : s[i] = c}
    IN  IF at = {} THEN 0 ELSE CHOOSE i \in at : \A j \in at : j <= i

RECURSIVE DigitsValue(_)
DigitsValue(s) == IF s = << >> THEN 0
                  ELSE 10 * DigitsValue(SubSeq(s, 1, Len(s) - 1)) + DigitVal(s[Len(s)])

AllDigits(s) == s # << >> /\ \A i \in 1..Len(s) : s[i] \in Digit

\* <usize as FromStr>::from_str: an optional '+', then one or more digits.
\* The texts of the model stay far below usize::MAX, so no overflow arm.
parse_usize(s) ==
    LET d == IF s # << >> /\ s[1] = "+" THEN Tail(s) ELSE s
    IN  IF AllDigits(d) THEN Some(DigitsValue(d)) ELSE None

\* <i32 as FromStr>::from_str: an optional '+' or '-', then one or more digits
parse_i32(s) ==
    LET neg == s # << >> /\ s[1] = "-"
        d   == IF s # << >> /\ s[1] \in {"+", "-"} THEN Tail(s) ELSE s
    IN  IF AllDigits(d)
        THEN Some(IF neg THEN 0 - DigitsValue(d) ELSE DigitsValue(d))
        ELSE None

IsWhite(c) == c \in {" ", "\t", "\n"}

\* str::split_whitespace().next(): the first maximal run of non-whitespace
first_token(s) ==
    LET starts == {i \in 1..Len(s) : ~IsWhite(s[i])}
    IN  IF starts = {} THEN None
        ELSE LET b == CHOOSE i \in starts : \A j \in starts : i <= j
                 ends == {i \in b..Len(s) : IsWhite(s[i])}
                 e == IF ends = {} THEN Len(s)
                      ELSE (CHOOSE i \in ends : \A j \in ends : i <= j) - 1
             IN  Some(SubSeq(s, b, e))

\* Regex::is_match for a pattern without metacharacters: an unanchored search
is_match(re, s) ==
    \E i \in 1..(Len(s) - Len(re) + 1) : SubSeq(s, i, i + Len(re) - 1) = re

\* byte-wise lexicographic comparison (Ord for str, OsString and [u8])
RECURSIVE cmp_bytes(_, _)
cmp_bytes(a, b) ==
    IF a = << >> /\ b = << >> THEN "Equal"
    ELSE IF a = << >> THEN "Less"
    ELSE IF b = << >> THEN "Greater"
    ELSE IF Ord(Head(a)) < Ord(Head(b)) THEN "Less"
    ELSE IF Ord(Head(a)) > Ord(Head(b)) THEN "Greater"
    ELSE cmp_bytes(Tail(a), Tail(b))

\* Ord::cmp on integers
cmp_int(a, b) == IF a < b THEN "Less" ELSE IF a > b THEN "Greater" ELSE "Equal"

-----------------------------------------------------------------------------
(* The size parsers.                                                           *)

Ok(x) == [kind |-> "ok", val |-> x]

ErrParseSize == [kind |-> "err"]

Panic == [kind |-> "panic"]

\* stats.rs, Size::from_smap_entry: the line as read_line returns it
from_smap_entry(s) ==
    IF ~ends_with(s, << "k", "B", "\n" >>) THEN Panic        \* assert!
    ELSE IF Len(s) < 4 THEN Panic                            \* s.len() - 4 underflows
    ELSE LET t   == SubSeq(s, 1, Len(s) - 4)
             pos == rfind(t, " ")
         IN  IF pos = 0 THEN ErrParseSize
             ELSE LET n == parse_usize(SubSeq(t, pos + 1, Len(t)))
                  IN  IF n.some THEN Ok(n.val * 1024) ELSE ErrParseSize

\* main.rs, parse_size: the line as BufRead::lines returns it
parse_size(s) ==
    IF Len(s) < 3 THEN Panic                                 \* s.len() - 3 underflows
    ELSE LET t   == SubSeq(s, 1, Len(s) - 3)
             pos == rfind(t, " ")
         IN  IF pos = 0 THEN Panic                           \* unwrap of None
             ELSE LET n == parse_usize(SubSeq(t, pos + 1, Len(t)))
                  IN  IF n.some THEN Ok(n.val) ELSE Ok(0)    \* unwrap_or_default


\* <u16 as FromStr>::from_str: an optional '+', then digits, at most u16::MAX
parse_u16(s) ==
    LET n == parse_usize(s)
    IN  IF n.some /\ n.val <= 65535 THEN n ELSE None

\* BufRead::lines: one line of the file, its terminating newline removed
lines_item(s) == IF ends_with(s, << "\n" >>) THEN SubSeq(s, 1, Len(s) - 1) ELSE s

LblPss == << "P", "s", "s", ":" >>

LblRss == << "R", "s", "s", ":" >>

LblPrivateClean == << "P", "r", "i", "v", "a", "t", "e", "_", "C", "l", "e", "a", "n", ":" >>

LblPrivateDirty == << "P", "r", "i", "v", "a", "t", "e", "_", "D", "i", "r", "t", "y", ":" >>

LblSwap == << "S", "w", "a", "p", ":" >>

LblSwapPss == << "S", "w", "a", "p", "P", "s", "s", ":" >>

UnitKb == << " ", "k", "B" >>

Spaces(n) == [i \in 1..n |-> " "]

\* the value tokens of the generated lines: the decimal text of a kilobyte number,
\* or a text that is no non-negative integer
SizeTokens ==
    [num : {TRUE}, n : (0..MaxKb) \cup {999999}, text : {<< >>}]
    \cup [num : {FALSE}, n : {0}, text : {<< >>, << "x" >>, << "-", "1" >>, << "1", "x" >>}]

TokenText(tok) == IF tok.num THEN Decimal(tok.n) ELSE tok.text

\* the lines handed to the size parsers: <label><pad spaces><token>[ kB][\n]
SizeInputs ==
    [label : {LblPss, LblPrivateDirty}, pad : 0..MaxPad, tok : SizeTokens,
     unit : BOOLEAN, nl : BOOLEAN]

SizeLine(in) ==
    in.label \o Spaces(in.pad) \o TokenText(in.tok)
        \o (IF in.unit THEN UnitKb ELSE << >>)
        \o (IF in.nl THEN << "\n" >> ELSE << >>)

\* "<Label>:<one or more spaces><N> kB", with or without a trailing newline
WellFormedSize(in) == in.pad >= 1 /\ in.tok.num /\ in.unit

\* the suffix is absent, no space separates label and value, or the value token
\* is no non-negative integer
MalformedSize(in) == ~in.unit \/ in.pad = 0 \/ ~in.tok.num

-----------------------------------------------------------------------------
(* The idle values of the variables a specification does not use.              *)

ScanIdle ==
    /\ entries = << >> /\ process_filter = None /\ user_filter = None
    /\ reverse = FALSE /\ sort_field = None /\ numeric = FALSE
    /\ pc = << >> /\ opened = << >> /\ uid = << >> /\ username = << >>
    /\ command = << >> /\ cmdline = << >> /\ result = << >>
    /\ phase = "idle" /\ processes = << >> /\ printed = << >>

SizeIdle == size_in = None /\ size_out = None

TotalsIdle == totals_in = << >> /\ totals_n = 0 /\ totals = None

-----------------------------------------------------------------------------
(* SpecSize: one line through Size::from_smap_entry and through parse_size.    *)

InitSize ==
    /\ size_in \in {Some(in) : in \in SizeInputs}
    /\ size_out = None
    /\ ScanIdle /\ TotalsIdle

\* the line goes to from_smap_entry as read_line returns it, and to parse_size
\* as get_statistics hands it over, from BufRead::lines
ParseLine ==
    /\ size_in.some /\ ~size_out.some
    /\ size_out' = Some([smap |-> from_smap_entry(SizeLine(size_in.val)),
                         main |-> parse_size(lines_item(SizeLine(size_in.val)))])
    /\ UNCHANGED << size_in, scanVars, totalsVars >>

NextSize == ParseLine

SpecSize == InitSize /\ [][NextSize]_vars

\* C3: for every line "<Label>:<one or more spaces><N> kB", with or without a
\* trailing newline, the size parser returns N x 1024, a byte count.
C3_SizeIsBytes ==
    (size_out.some /\ WellFormedSize(size_in.val)) =>
        /\ size_out.val.smap = Ok(size_in.val.tok.n * 1024)
        /\ size_out.val.main = Ok(size_in.val.tok.n * 1024)

\* C4: on every input where the "kB" suffix is absent, where no space separates
\* label from value, or where the value token is no non-negative integer, the
\* size parser returns the size-parse error: no panic, no assertion, no silent 0.
C4_MalformedIsError ==
    (size_out.some /\ MalformedSize(size_in.val)) =>
        /\ size_out.val.smap = ErrParseSize
        /\ size_out.val.main = ErrParseSize

-----------------------------------------------------------------------------
(* The process table: what one run can find under options.source.              *)

NUL == "NUL"

Readable(data) == [err |-> FALSE, data |-> data]

\* the file vanished, or may not be read
Unreadable == [err |-> TRUE, data |-> << >>]

NameLine == << "N", "a", "m", "e", ":", "\t", "s", "h" >>

UidPrefix == << "U", "i", "d", ":" >>

UidLine(n) == UidPrefix \o << "\t" >> \o Decimal(n) \o << "\t" >> \o Decimal(n)

SizeLineOf(label, pad, kb) == label \o Spaces(pad) \o Decimal(kb) \o UnitKb

StatusRoot == Readable(<< NameLine, UidLine(0) >>)

StatusAlice == Readable(<< NameLine, UidLine(1000) >>)

\* a status record without any "Uid:" line
StatusNoUid == Readable(<< NameLine >>)

\* a status record whose "Uid:" line carries no value
StatusEmptyUid == Readable(<< NameLine, UidPrefix >>)

CommSh == Readable(<< "s", "h", "\n" >>)

CommVi == Readable(<< "v", "i", "\n" >>)

CmdlineSh == Readable(<< "s", "h", NUL, "-", "c", NUL >>)

CmdlineVi == Readable(<< "v", "i", NUL, "s", "h", "x", NUL >>)

CmdlineEd == Readable(<< "e", "d", NUL >>)

\* one mapping, in the kernel's order, with a SwapPss line that is no Swap line
SmapsOne ==
    Readable(<< SizeLineOf(LblRss, 3, 4), SizeLineOf(LblPss, 3, 2),
                SizeLineOf(LblPrivateClean, 1, 1), SizeLineOf(LblPrivateDirty, 1, 2),
                SizeLineOf(LblSwapPss, 2, 3) >>)

\* two mappings, their lines in another order
SmapsTwo ==
    Readable(<< SizeLineOf(LblSwap, 2, 1), SizeLineOf(LblPrivateDirty, 1, 3),
                SizeLineOf(LblPss, 1, 5), SizeLineOf(LblRss, 2, 7),
                SizeLineOf(LblPss, 4, 1) >>)

\* a recognized label with no space before its value: "Pss:2 kB"
SmapsNoSpace == Readable(<< SizeLineOf(LblRss, 1, 4), SizeLineOf(LblPss, 0, 2) >>)

\* a recognized label whose value is no number: "Rss: x kB"
SmapsBadValue ==
    Readable(<< LblRss \o << " ", "x" >> \o UnitKb, SizeLineOf(LblPss, 1, 2) >>)

Proc(name, meta, status, comm, cmdl, smaps) ==
    [name |-> name, meta |-> meta, status |-> status, comm |-> comm,
     cmdline |-> cmdl, smaps |-> smaps]

\* the entries a run may find, in directory order
Catalogue ==
    << Proc(<< "1" >>, "dir", StatusRoot, CommSh, CmdlineSh, SmapsOne),
       Proc(<< "2", "2" >>, "dir", StatusAlice, CommVi, CmdlineVi, SmapsTwo),
       Proc(<< "3" >>, "dir", StatusRoot, CommSh, CmdlineSh, SmapsNoSpace),
       Proc(<< "4" >>, "dir", StatusNoUid, CommVi, CmdlineEd, SmapsOne),
       Proc(<< "5" >>, "dir", StatusAlice, Unreadable, CmdlineSh, SmapsOne),
       Proc(<< "6" >>, "dir", StatusAlice, CommSh, Readable(<< >>), SmapsOne),
       Proc(<< "7" >>, "dir", StatusEmptyUid, CommSh, CmdlineSh, SmapsOne),
       Proc(<< "8" >>, "dir", StatusRoot, CommVi, CmdlineEd, SmapsBadValue),
       Proc(<< "9" >>, "dir", Unreadable, CommSh, CmdlineSh, SmapsOne),
       Proc(<< "1", "0" >>, "dir", StatusAlice, CommSh, CmdlineSh, Unreadable),
       Proc(<< "7", "0", "0", "0", "0" >>, "dir", StatusAlice, CommSh, CmdlineSh, SmapsTwo),
       Proc(<< "0" >>, "dir", StatusRoot, CommSh, CmdlineSh, SmapsOne),
       Proc(<< "s", "e", "l", "f" >>, "dir", StatusRoot, CommSh, CmdlineSh, SmapsOne),
       Proc(<< "1", "1" >>, "file", Unreadable, Unreadable, Unreadable, Unreadable),
       Proc(<< "1", "2" >>, "err", Unreadable, Unreadable, Unreadable, Unreadable) >>

\* the system's user database, as users::get_user_by_uid reads it
Passwd == (0 :> << "r", "o", "o", "t" >>) @@ (1000 :> << "a", "l", "i", "c", "e" >>)

-----------------------------------------------------------------------------
(* get_statistics, step by step.                                               *)

\* main.rs, parse_uid
parse_uid(s) ==
    IF ~starts_with(s, UidPrefix) THEN Panic                 \* assert!
    ELSE LET tok == first_token(SubSeq(s, 5, Len(s)))
         IN  IF ~tok.some THEN Panic                         \* unwrap of None
             ELSE LET n == parse_i32(tok.val)
                  IN  IF n.some THEN Ok(n.val) ELSE Ok(0 - 1)   \* unwrap_or(-1)

\* main.rs, get_statistics: `let mut uid = 0;` and the loop over the status lines
scan_status(lines) ==
    LET at == {k \in 1..Len(lines) : starts_with(lines[k], UidPrefix)}
    IN  IF at = {} THEN Ok(0)
        ELSE parse_uid(lines[CHOOSE k \in at : \A j \in at : k <= j])

\* main.rs, get_username.  The caller passes `uid as u32`: a negative uid wraps
\* to 2^32 + uid, which is no uid of the table.
get_username(u) == IF u \in DOMAIN Passwd THEN Passwd[u] ELSE << >>

\* a slip of the user filter's test: the test left out
user_filter_skipped(uf, name) == FALSE

\* main.rs, get_statistics: the user filter's test
user_filter_rejects(uf, name) == uf.some /\ ~is_match(uf.val, name)

\* main.rs, get_statistics: the process filter's test
process_filter_rejects(pf, comm, cmdl) ==
    pf.some /\ ~is_match(pf.val, comm) /\ ~is_match(pf.val, cmdl)

\* Vec::pop: the vector without its last element; nothing to do when it is empty
pop(v) == IF v = << >> THEN v ELSE SubSeq(v, 1, Len(v) - 1)

\* main.rs, get_statistics: every NUL byte of cmdline becomes a space
nul_to_space(v) == [k \in 1..Len(v) |-> IF v[k] = NUL THEN " " ELSE v[k]]

ZeroSizes ==
    [pss |-> 0, rss |-> 0, private_clean |-> 0, private_dirty |-> 0, swap |-> 0,
     panicked |-> FALSE]

\* a slip of the label tests: "Swap" tested without its colon
smaps_field_loose(line) ==
    IF starts_with(line, LblPss) THEN "pss"
    ELSE IF starts_with(line, LblRss) THEN "rss"
    ELSE IF starts_with(line, LblPrivateClean) THEN "private_clean"
    ELSE IF starts_with(line, LblPrivateDirty) THEN "private_dirty"
    ELSE IF starts_with(line, << "S", "w", "a", "p" >>) THEN "swap"
    ELSE "continue"

\* main.rs, get_statistics: the accumulator a memory-map line adds into
smaps_field(line) ==
    IF starts_with(line, LblPss) THEN "pss"
    ELSE IF starts_with(line, LblRss) THEN "rss"
    ELSE IF starts_with(line, LblPrivateClean) THEN "private_clean"
    ELSE IF starts_with(line, LblPrivateDirty) THEN "private_dirty"
    ELSE IF starts_with(line, LblSwap) THEN "swap"
    ELSE "continue"

\* main.rs, get_statistics: one turn of the loop over the memory-map lines
smaps_line(acc, line) ==
    LET f == smaps_field(line)
    IN  IF acc.panicked \/ f = "continue" THEN acc
        ELSE LET v == parse_size(line)
             IN  IF v.kind = "panic" THEN [acc EXCEPT !.panicked = TRUE]
                 ELSE [acc EXCEPT ![f] = @ + v.val]

\* main.rs, get_statistics: the loop over the memory-map lines
RECURSIVE smaps_loop(_, _)
smaps_loop(acc, lines) ==
    IF lines = << >> THEN acc ELSE smaps_loop(smaps_line(acc, Head(lines)), Tail(lines))

\* main.rs, get_statistics: the record built after the loop
statistics(pid, u, name, comm, cmdl, acc) ==
    [pid |-> pid, uid |-> u, username |-> name, command |-> comm, cmdline |-> cmdl,
     pss |-> acc.pss, rss |-> acc.rss, uss |-> acc.private_clean + acc.private_dirty,
     swap |-> acc.swap]


Pending == [kind |-> "pending"]

\* Err(io::Error)
ErrIo == [kind |-> "err"]

\* Ok(None)
OkNone == [kind |-> "none"]

\* Ok(Some(statistics))
OkSome(st) == [kind |-> "some", stats |-> st]

Tasks == DOMAIN entries

Return(i, r) ==
    /\ pc' = [pc EXCEPT ![i] = "done"]
    /\ result' = [result EXCEPT ![i] = r]

Goto(i, l) ==
    /\ pc' = [pc EXCEPT ![i] = l]
    /\ UNCHANGED result

Open(i, f) == opened' = [opened EXCEPT ![i] = @ \cup {f}]

options == << process_filter, user_filter, reverse, sort_field, numeric >>

\* get_statistics, lines 56-70: the entry's metadata and its name as a pid
Metadata(i) ==
    /\ phase = "scan" /\ pc[i] = "meta"
    /\ IF entries[i].meta = "err" THEN Return(i, ErrIo)
       ELSE IF entries[i].meta # "dir" THEN Return(i, OkNone)
       ELSE IF ~parse_u16(entries[i].name).some THEN Return(i, OkNone)
       ELSE Goto(i, "status")
    /\ UNCHANGED << entries, options, opened, uid, username, command, cmdline,
                    phase, processes, printed, sizeVars, totalsVars >>

\* get_statistics, lines 72-87: the uid of the status record, the user's name,
\* the user filter
ReadStatus(i) ==
    /\ phase = "scan" /\ pc[i] = "status"
    /\ Open(i, "status")
    /\ LET f == entries[i].status
           u == scan_status(f.data)
       IN  IF f.err
           THEN Return(i, ErrIo) /\ UNCHANGED << uid, username >>
           ELSE IF u.kind = "panic"
           THEN Return(i, Panic) /\ UNCHANGED << uid, username >>
           ELSE /\ uid' = [uid EXCEPT ![i] = Some(u.val)]
                /\ username' = [username EXCEPT ![i] = Some(get_username(u.val))]
                /\ IF user_filter_rejects(user_filter, get_username(u.val))
                   THEN Return(i, OkNone)
                   ELSE Goto(i, "comm")
    /\ UNCHANGED << entries, options, command, cmdline, phase, processes, printed,
                    sizeVars, totalsVars >>

\* get_statistics, lines 89-91: the short command name, its newline popped
ReadComm(i) ==
    /\ phase = "scan" /\ pc[i] = "comm"
    /\ Open(i, "comm")
    /\ LET f == entries[i].comm
       IN  IF f.err
           THEN Return(i, ErrIo) /\ UNCHANGED command
           ELSE /\ command' = [command EXCEPT ![i] = Some(pop(f.data))]
                /\ Goto(i, "cmdline")
    /\ UNCHANGED << entries, options, uid, username, cmdline, phase, processes,
                    printed, sizeVars, totalsVars >>

\* get_statistics, lines 93-109: the argument text and the process filter
ReadCmdline(i) ==
    /\ phase = "scan" /\ pc[i] = "cmdline"
    /\ Open(i, "cmdline")
    /\ LET f == entries[i].cmdline
           c == pop(nul_to_space(f.data))
       IN  IF f.err
           THEN Return(i, ErrIo) /\ UNCHANGED cmdline
           ELSE IF f.data = << >>
           THEN Return(i, OkNone) /\ UNCHANGED cmdline
           ELSE /\ cmdline' = [cmdline EXCEPT ![i] = Some(c)]
                /\ IF process_filter_rejects(process_filter, command[i].val, c)
                   THEN Return(i, OkNone)
                   ELSE Goto(i, "smaps")
    /\ UNCHANGED << entries, options, uid, username, command, phase, processes,
                    printed, sizeVars, totalsVars >>

\* get_statistics, lines 111-153: the memory map summed into the record
ReadSmaps(i) ==
    /\ phase = "scan" /\ pc[i] = "smaps"
    /\ Open(i, "smaps")
    /\ LET f   == entries[i].smaps
           acc == smaps_loop(ZeroSizes, f.data)
       IN  IF f.err THEN Return(i, ErrIo)
           ELSE IF acc.panicked THEN Return(i, Panic)
           ELSE Return(i, OkSome(statistics(parse_u16(entries[i].name).val,
                                            uid[i].val, username[i].val,
                                            command[i].val, cmdline[i].val, acc)))
    /\ UNCHANGED << entries, options, uid, username, command, cmdline, phase,
                    processes, printed, sizeVars, totalsVars >>

\* the Some(statistics) among the results of the entries from..upto, in entry order
RECURSIVE flatten(_, _, _)
flatten(res, from, upto) ==
    IF from > upto THEN << >>
    ELSE (IF res[from].kind = "some" THEN << res[from].stats >> ELSE << >>)
             \o flatten(res, from + 1, upto)

\* a slip of the gather: the vector taken without waiting for every closure
Collect_early ==
    /\ phase = "scan"
    /\ \A i \in Tasks : result[i].kind # "panic"
    /\ processes' = flatten(result, 1, Len(entries))
    /\ phase' = "collected"
    /\ UNCHANGED << entries, options, pc, opened, uid, username, command, cmdline,
                    result, printed, sizeVars, totalsVars >>

\* main, lines 237-241: par_iter().filter_map().flatten().collect() returns
\* once every entry's closure has returned
Collect ==
    /\ phase = "scan"
    /\ \A i \in Tasks : pc[i] = "done"
    /\ \A i \in Tasks : result[i].kind # "panic"
    /\ processes' = flatten(result, 1, Len(entries))
    /\ phase' = "collected"
    /\ UNCHANGED << entries, options, pc, opened, uid, username, command, cmdline,
                    result, printed, sizeVars, totalsVars >>

\* main, lines 237-241: a closure's panic is resumed on the main thread once
\* the parallel iterator is through, and ends the run
Abort ==
    /\ phase = "scan"
    /\ \A i \in Tasks : pc[i] = "done"
    /\ \E i \in Tasks : result[i].kind = "panic"
    /\ phase' = "aborted"
    /\ UNCHANGED << entries, options, pc, opened, uid, username, command, cmdline,
                    result, processes, printed, sizeVars, totalsVars >>

-----------------------------------------------------------------------------
(* filter.rs: Filters.                                                         *)

\* filter.rs, Filters::new
Filters_new == [process_filter |-> None, user_filter |-> None]

\* filter.rs, Filters::process
Filters_process(f, re) == [f EXCEPT !.process_filter = Some(re)]

\* filter.rs, Filters::user
Filters_user(f, re) == [f EXCEPT !.user_filter = Some(re)]

\* a slip of accept_process: unwrap_or(false)
accept_process_strict(f, s) ==
    IF f.process_filter.some THEN is_match(f.process_filter.val, s) ELSE FALSE

\* filter.rs, Filters::accept_process
accept_process(f, s) ==
    IF f.process_filter.some THEN is_match(f.process_filter.val, s) ELSE TRUE

\* filter.rs, Filters::accept_user
accept_user(f, s) ==
    IF f.user_filter.some THEN is_match(f.user_filter.val, s) ELSE TRUE

-----------------------------------------------------------------------------
(* main after the gather: sort and print.                                      *)

\* the order of the sort keys: p.rss, or Reverse(p.rss) when options.reverse
key_le(a, b, rev) == IF rev THEN a.rss >= b.rss ELSE a.rss <= b.rss

\* x put behind every element of the sorted s whose key is not greater
stable_insert(s, x, rev) ==
    LET k == Cardinality({j \in 1..Len(s) : key_le(s[j], x, rev)})
    IN  SubSeq(s, 1, k) \o << x >> \o SubSeq(s, k + 1, Len(s))

\* main, lines 252-256: slice::sort_by_key, a stable sort
RECURSIVE sort_by_key(_, _)
sort_by_key(v, rev) ==
    IF v = << >> THEN << >>
    ELSE stable_insert(sort_by_key(SubSeq(v, 1, Len(v) - 1), rev), v[Len(v)], rev)

\* main, lines 242-256: the header, then the sort
Sort ==
    /\ phase = "collected"
    /\ processes' = sort_by_key(processes, reverse)
    /\ phase' = "sorted"
    /\ UNCHANGED << entries, options, pc, opened, uid, username, command, cmdline,
                    result, printed, sizeVars, totalsVars >>

\* main, lines 261-276: one row of the table
PrintRow ==
    /\ phase = "sorted"
    /\ Len(printed) < Len(processes)
    /\ printed' = Append(printed, processes[Len(printed) + 1].pid)
    /\ UNCHANGED << entries, options, pc, opened, uid, username, command, cmdline,
                    result, phase, processes, sizeVars, totalsVars >>

Field == {"Pid", "User", "Pss", "Rss", "Uss", "Swap", "Cmdline"}

\* stats.rs, ProcessDetails::cmp_by
cmp_by(field, a, b, num) ==
    CASE field = "Pid" -> cmp_int(a.pid, b.pid)
      [] field = "User" -> IF num THEN cmp_int(a.uid, b.uid)
                           ELSE cmp_bytes(a.username, b.username)
      [] field = "Pss" -> cmp_int(a.pss, b.pss)
      [] field = "Rss" -> cmp_int(a.rss, b.rss)
      [] field = "Uss" -> cmp_int(a.uss, b.uss)
      [] field = "Swap" -> cmp_int(a.swap, b.swap)
      [] field = "Cmdline" -> cmp_bytes(a.cmdline, b.cmdline)

-----------------------------------------------------------------------------
(* Spec: one run of main over a process table.                                 *)

\* the entries of the catalogue at the places idx, in directory order
RECURSIVE Pick(_)
Pick(idx) ==
    IF idx = {} THEN << >>
    ELSE LET m == CHOOSE k \in idx : \A j \in idx : j <= k
         IN  Append(Pick(idx \ {m}), Catalogue[m])

ProcessTables ==
    {Pick(idx) : idx \in {x \in SUBSET (1..Len(Catalogue)) : Cardinality(x) <= MaxEntries}}

Init ==
    /\ entries \in ProcessTables
    /\ process_filter \in {None, Some(<< "s", "h" >>)}
    /\ user_filter \in {None, Some(<< "r", "o" >>)}
    /\ reverse \in BOOLEAN
    /\ sort_field = None
    /\ numeric = FALSE
    /\ pc = [i \in 1..Len(entries) |-> "meta"]
    /\ opened = [i \in 1..Len(entries) |-> {}]
    /\ uid = [i \in 1..Len(entries) |-> None]
    /\ username = [i \in 1..Len(entries) |-> None]
    /\ command = [i \in 1..Len(entries) |-> None]
    /\ cmdline = [i \in 1..Len(entries) |-> None]
    /\ result = [i \in 1..Len(entries) |-> Pending]
    /\ phase = "scan"
    /\ processes = << >>
    /\ printed = << >>
    /\ SizeIdle /\ TotalsIdle

Next ==
    \/ \E i \in Tasks : Metadata(i)
    \/ \E i \in Tasks : ReadStatus(i)
    \/ \E i \in Tasks : ReadComm(i)
    \/ \E i \in Tasks : ReadCmdline(i)
    \/ \E i \in Tasks : ReadSmaps(i)
    \/ Collect
    \/ Abort
    \/ Sort
    \/ PrintRow

Spec == Init /\ [][Next]_vars

-----------------------------------------------------------------------------
(* SpecSort: the sort and print steps of main over a gathered vector.          *)

Sizes(pss, rss, clean, dirty, swap) ==
    [pss |-> pss, rss |-> rss, private_clean |-> clean, private_dirty |-> dirty,
     swap |-> swap, panicked |-> FALSE]

\* records a scan can gather; the first and the last tie on rss and on cmdline
GatheredRecords ==
    { statistics(1, 0, Passwd[0], << "s", "h" >>, << "s", "h", " ", "-", "c" >>,
                 Sizes(2, 4, 1, 2, 0)),
      statistics(22, 1000, Passwd[1000], << "v", "i" >>, << "v", "i", " ", "s", "h", "x" >>,
                 Sizes(6, 7, 0, 3, 1)),
      statistics(3, 0, Passwd[0], << "e", "d" >>, << "e", "d" >>,
                 Sizes(9, 2, 1, 0, 5)),
      statistics(40, 7, << >>, << "s", "h" >>, << "s", "h", " ", "-", "c" >>,
                 Sizes(1, 4, 0, 0, 2)) }

Injective(v) == \A j, k \in 1..Len(v) : j # k => v[j] # v[k]

GatheredVectors ==
    UNION {{v \in [1..n -> GatheredRecords] : Injective(v)} : n \in 0..MaxRows}

InitSort ==
    /\ processes \in GatheredVectors
    /\ reverse \in BOOLEAN
    /\ sort_field \in {None} \cup {Some(f) : f \in Field}
    /\ numeric \in BOOLEAN
    /\ phase = "collected"
    /\ printed = << >>
    /\ entries = << >> /\ process_filter = None /\ user_filter = None
    /\ pc = << >> /\ opened = << >> /\ uid = << >> /\ username = << >>
    /\ command = << >> /\ cmdline = << >> /\ result = << >>
    /\ SizeIdle /\ TotalsIdle

NextSort == Sort \/ PrintRow

SpecSort == InitSort /\ [][NextSort]_vars

\* the configured sort field, Rss when none is configured
SortField == IF sort_field.some THEN sort_field.val ELSE "Rss"

DistinctOn(f, v) ==
    \A j, k \in 1..Len(v) : j # k => cmp_by(f, v[j], v[k], numeric) # "Equal"

\* C6: after the sort step the records are in ascending order of the configured
\* sort field (Rss when none is configured) under cmp_by; with reverse set and
\* pairwise distinct values on that field, the rows are in exactly the reverse
\* of the ascending order.
C6_SortedByConfiguredField ==
    phase = "sorted" =>
        /\ ~reverse =>
              \A k \in 1..(Len(processes) - 1) :
                  cmp_by(SortField, processes[k], processes[k + 1], numeric) # "Greater"
        /\ (reverse /\ DistinctOn(SortField, processes)) =>
              \A k \in 1..(Len(processes) - 1) :
                  cmp_by(SortField, processes[k], processes[k + 1], numeric) = "Greater"

-----------------------------------------------------------------------------
(* SpecTotals: ProcessSizes values accumulated into a default-initialised      *)
(* total.  The byte counts of the model stay far below usize::MAX.             *)

\* stats.rs, impl Default for Size
Size_default == 0

\* stats.rs, impl Add for Size
Size_add(a, b) == a + b

\* stats.rs, impl AddAssign for Size: the new value of self
Size_add_assign(a, b) == a + b

\* stats.rs, impl Default for ProcessSizes
ProcessSizes_default ==
    [rss |-> Size_default, pss |-> Size_default, uss |-> Size_default,
     swap |-> Size_default]

\* stats.rs, impl Add for ProcessSizes
ProcessSizes_add(a, b) ==
    [rss |-> Size_add(a.rss, b.rss), pss |-> Size_add(a.pss, b.pss),
     uss |-> Size_add(a.uss, b.uss), swap |-> Size_add(a.swap, b.swap)]

\* a slip of ProcessSizes' AddAssign: swap takes the other's pss
ProcessSizes_add_assign_swapped(a, b) ==
    [rss |-> Size_add_assign(a.rss, b.rss), pss |-> Size_add_assign(a.pss, b.pss),
     uss |-> Size_add_assign(a.uss, b.uss), swap |-> Size_add_assign(a.swap, b.pss)]

\* stats.rs, impl AddAssign for ProcessSizes: the new value of self
ProcessSizes_add_assign(a, b) ==
    [rss |-> Size_add_assign(a.rss, b.rss), pss |-> Size_add_assign(a.pss, b.pss),
     uss |-> Size_add_assign(a.uss, b.uss), swap |-> Size_add_assign(a.swap, b.swap)]

\* the sizes of one record: unique <= proportional <= resident
SizesInputs ==
    {x \in [rss : 0..1, pss : 0..1, uss : 0..1, swap : 0..1] :
        x.uss <= x.pss /\ x.pss <= x.rss}

InitTotals ==
    /\ totals_in \in UNION {[1..n -> SizesInputs] : n \in 0..MaxRecords}
    /\ totals_n = 0
    /\ totals = ProcessSizes_default
    /\ ScanIdle /\ SizeIdle

\* totals += the next record's sizes
Accumulate ==
    /\ totals_n < Len(totals_in)
    /\ totals' = ProcessSizes_add_assign(totals, totals_in[totals_n + 1])
    /\ totals_n' = totals_n + 1
    /\ UNCHANGED << totals_in, scanVars, sizeVars >>

NextTotals == Accumulate

SpecTotals == InitTotals /\ [][NextTotals]_vars

\* the sum of field f over the first n values of v
RECURSIVE SumField(_, _, _)
SumField(v, n, f) == IF n = 0 THEN 0 ELSE SumField(v, n - 1, f) + v[n][f]

\* the values of v added up with ProcessSizes' Add, in the order p
RECURSIVE AddUp(_, _, _)
AddUp(v, p, n) ==
    IF n = 0 THEN ProcessSizes_default ELSE ProcessSizes_add(AddUp(v, p, n - 1), v[p[n]])

\* C7: after N >= 0 records are accumulated into a default-initialised total,
\* each of rss, pss, uss and swap is the sum of that field over the N records,
\* whatever the order of accumulation; for N = 0 all four are zero.
C7_TotalsAreFieldSums ==
    /\ \A f \in {"rss", "pss", "uss", "swap"} :
           totals[f] = SumField(totals_in, totals_n, f)
    /\ totals_n = 0 => totals = [rss |-> 0, pss |-> 0, uss |-> 0, swap |-> 0]
    /\ totals_n = Len(totals_in) =>
           \A p \in Permutations(1..totals_n) : AddUp(totals_in, p, totals_n) = totals

\* C7 witness: three records, not all alike, have been accumulated
C7_Witness ==
    /\ totals_n = 3
    /\ totals_in[1] # totals_in[2] /\ totals_in[2] # totals_in[3]
    /\ totals.rss = 2 /\ totals.swap = 1 /\ totals.uss = 1

-----------------------------------------------------------------------------
(* The claims about the scan and the gather, under Spec.                       *)

\* C1: a failure while building one process's record drops only that process:
\* no closure panics and the run is never aborted.
C1_FailureDropsOnlyThatProcess ==
    /\ phase # "aborted"
    /\ \A i \in Tasks : result[i].kind # "panic"

\* the user filter rejects the name resolved for entry i
UserRejected(i) ==
    /\ username[i].some
    /\ user_filter.some
    /\ ~is_match(user_filter.val, username[i].val)

\* C2: for a process whose user the user filter rejects, the scan ends right
\* after the uid is resolved: comm, cmdline and the memory map are never opened
\* and no record is emitted for it.
C2_RejectedUserReadsNothingMore ==
    \A i \in Tasks :
        UserRejected(i) =>
            /\ pc[i] = "done"
            /\ result[i] = OkNone
            /\ opened[i] = {"status"}
            /\ \A k \in 1..Len(processes) : processes[k].pid # parse_u16(entries[i].name).val

\* C2 witness: a rejected user's process beside one whose record was gathered
C2_Witness ==
    /\ phase = "sorted"
    /\ Len(processes) >= 1
    /\ \E i \in Tasks : UserRejected(i) /\ entries[i].smaps.err = FALSE

\* the label of a memory-map line: its text up to and including the first colon
LabelOf(line) ==
    LET at == {k \in 1..Len(line) : line[k] = ":"}
    IN  IF at = {} THEN << >>
        ELSE SubSeq(line, 1, CHOOSE k \in at : \A j \in at : k <= j)

\* the sum of the sizes of the lines of the given label, as parse_size reads them
RECURSIVE LabelSum(_, _)
LabelSum(lines, lbl) ==
    IF lines = << >> THEN 0
    ELSE (IF LabelOf(Head(lines)) = lbl THEN parse_size(Head(lines)).val ELSE 0)
             + LabelSum(Tail(lines), lbl)

SizesOf(st) == << st.pss, st.rss, st.uss, st.swap >>

\* C5: the record's sizes are the sums of the lines by label: pss of the
\* "Pss:" lines, rss of the "Rss:" lines, swap of the "Swap:" lines, uss of the
\* "Private_Clean:" and "Private_Dirty:" lines; other lines add nothing, and
\* every permutation of the lines gives the same sizes.
C5_SizesAreLabelSums ==
    \A i \in Tasks :
        result[i].kind = "some" =>
            LET L  == entries[i].smaps.data
                st == result[i].stats
            IN  /\ st.pss = LabelSum(L, LblPss)
                /\ st.rss = LabelSum(L, LblRss)
                /\ st.swap = LabelSum(L, LblSwap)
                /\ st.uss = LabelSum(L, LblPrivateClean) + LabelSum(L, LblPrivateDirty)
                /\ phase = "collected" =>
                       \A p \in Permutations(1..Len(L)) :
                           LET acc == smaps_loop(ZeroSizes, [k \in 1..Len(L) |-> L[p[k]]])
                           IN  SizesOf(statistics(0, 0, << >>, << >>, << >>, acc))
                                   = SizesOf(st)

\* C5 witness: a gathered record summed from two mappings, with two "Pss:" lines
C5_Witness ==
    /\ phase = "collected"
    /\ \E i \in Tasks :
           /\ result[i].kind = "some"
           /\ entries[i].smaps = SmapsTwo
           /\ result[i].stats.pss = 6 /\ result[i].stats.uss = 3
    /\ \E i \in Tasks :
           /\ result[i].kind = "some"
           /\ entries[i].smaps = SmapsOne
           /\ result[i].stats.swap = 0 /\ result[i].stats.uss = 3

\* the Filters built from the run's options
filters ==
    LET f0 == Filters_new
        f1 == IF process_filter.some THEN Filters_process(f0, process_filter.val) ELSE f0
    IN  IF user_filter.some THEN Filters_user(f1, user_filter.val) ELSE f1

\* entry i went on from the process filter to the memory map
Admitted(i) == pc[i] = "smaps" \/ "smaps" \in opened[i]

\* entry i went on from the user filter to the command name
UserAdmitted(i) == pc[i] = "comm" \/ "comm" \in opened[i]

\* C8: a process that reaches the process filter is admitted exactly when no
\* process pattern is configured or the pattern matches its command name or its
\* argument text; accept_process and accept_user are true for every input when
\* their pattern is absent, and the pattern's match result otherwise.
C8_FilterAdmission ==
    /\ \A i \in Tasks :
           cmdline[i].some =>
               LET c == command[i].val
                   a == cmdline[i].val
               IN  /\ Admitted(i) <=>
                          (\/ ~process_filter.some
                           \/ is_match(process_filter.val, c)
                           \/ is_match(process_filter.val, a))
                   /\ Admitted(i) <=> (accept_process(filters, c) \/ accept_process(filters, a))
                   /\ \A x \in {c, a} :
                          accept_process(filters, x) =
                              (process_filter.some => is_match(process_filter.val, x))
    /\ \A i \in Tasks :
           username[i].some =>
               /\ accept_user(filters, username[i].val) =
                      (user_filter.some => is_match(user_filter.val, username[i].val))
               /\ UserAdmitted(i) <=> accept_user(filters, username[i].val)

\* C8 witness: under a process pattern, one process is admitted by its argument
\* text alone and another is rejected on both texts
C8_Witness ==
    /\ process_filter.some
    /\ \E i, j \in Tasks :
           /\ cmdline[i].some /\ cmdline[j].some
           /\ Admitted(i)
           /\ ~is_match(process_filter.val, command[i].val)
           /\ ~Admitted(j) /\ pc[j] = "done"

\* the entries whose scan completed all steps
Completed == {i \in Tasks : result[i].kind = "some"}

\* C9: sorting and printing start only after every closure has returned, and
\* the gathered vector then holds exactly one record for each entry whose scan
\* completed and none for a dropped entry.
C9_GatherAfterJoin ==
    (phase \in {"collected", "sorted"} \/ printed # << >>) =>
        /\ \A i \in Tasks : pc[i] = "done"
        /\ Len(processes) = Cardinality(Completed)
        /\ \A i \in Completed :
               Cardinality({k \in 1..Len(processes) : processes[k] = result[i].stats}) = 1
        /\ \A k \in 1..Len(processes) : \E i \in Completed : processes[k] = result[i].stats

\* C9 witness: two entries scanned, one dropped on an I/O error, one gathered,
\* and its row printed
C9_Witness ==
    /\ Len(entries) = 2
    /\ printed # << >>
    /\ Cardinality(Completed) = 1
    /\ \E i \in Tasks : result[i] = ErrIo

\* the status record of entry e is readable and holds no "Uid:" line
NoUidLine(e) ==
    /\ ~e.status.err
    /\ \A k \in 1..Len(e.status.data) : ~starts_with(e.status.data[k], UidPrefix)

\* C10: a process whose status record ends without a "Uid:" line is dropped:
\* no record is emitted for it and it is attributed to no uid.
C10_NoUidLineDrops ==
    \A i \in Tasks :
        (NoUidLine(entries[i]) /\ "status" \in opened[i]) =>
            /\ pc[i] = "done"
            /\ result[i].kind \in {"none", "err"}
            /\ uid[i] = None


\* the name is the decimal text of a positive integer
IsPositivePidName(name) == AllDigits(name) /\ DigitsValue(name) > 0

\* entry i went on from the process-id check to its status record
PidAccepted(i) == pc[i] = "status" \/ "status" \in opened[i]

\* C11: a directory entry passes the process-id check exactly when its name is
\* the decimal text of a positive process id: a non-numeric name and "0" are
\* rejected, and every positive id, those above 65535 included, is scanned.
C11_PidCheckIsPositiveDecimal ==
    \A i \in Tasks :
        (entries[i].meta = "dir" /\ pc[i] # "meta") =>
            (PidAccepted(i) <=> IsPositivePidName(entries[i].name))

=============================================================================
